---------------------------- MODULE Spec2Model ----------------------------
(***************************************************************************)
(* plot_delays.py: read the data_* tables of a directory into DATA, print  *)
(* a summary line per device and save four figures.                        *)
(*                                                                         *)
(* The repository holds two copies of the script,                          *)
(*   A = src/docs/docs/docs/docs/docs/docs/modm-delay/plot_delays.py       *)
(*   B = src/docs/docs/docs/docs/docs/docs/docs/docs/modm-delay/...        *)
(* whose lines 1-79 (read_tables, parse_table, plot_table, dump_summary    *)
(* and the start of the main block) are the same text.  Spec is a run of   *)
(* the script (copy A) on a directory of well-formed tables, SpecMalformed *)
(* a run on a directory that may hold malformed tables, and SpecBoth a run *)
(* of copy A followed by a run of copy B on the same directory.            *)
(*                                                                         *)
(* Text is kept as text: a file's content is a string, and split, strip,   *)
(* splitlines, slicing and int() work on its characters.                   *)
(*                                                                         *)
(* Numbers: the code computes the measured delay in floating point.  The   *)
(* model keeps the exact quotient as a reduced fraction <<num, den>>; the  *)
(* rounding of the float division is not modelled.                         *)
(***************************************************************************)
EXTENDS Integers, Sequences, FiniteSets, TLC

VARIABLES
    files,      \* the directory: the files matching the glob, in glob order
    script,     \* the copy that is running: 1 = A, 2 = B
    pc,         \* where the running script is
    fidx,       \* read_tables: number of files the outer loop has taken
    device,     \* read_tables: local `device`
    tables,     \* read_tables: local `tables`
    tidx,       \* read_tables: number of tables the inner loop has taken
    data,       \* read_tables: local `data`, the last parse_table result
    DATA,       \* the global DATA, as insertion-ordered dictionaries
    stdout,     \* the lines printed so far
    figs,       \* matplotlib: the figures created so far
    cur,        \* matplotlib: the current figure (index into figs, 0: none)
    saved,      \* the files savefig has written, in order
    err,        \* the exception that ended the script, "none" if none
    prev        \* what copy A left behind, once copy B runs

vars == <<files, script, pc, fidx, device, tables, tidx, data, DATA, stdout,
          figs, cur, saved, err, prev>>

---------------------------------------------------------------------------
(* Bounds of the model.                                                    *)

MaxFiles == 2

MaxTables == 2

---------------------------------------------------------------------------
(* Program constants.                                                      *)

\* 16e6: a clock up to 16 MHz is a boot clock (dump_summary and the filters)
BootClockMax == 16000000

\* 1e9: nanoseconds per second, and the initial value of the minima
NsFactor == 1000000000

\* 1e6: microseconds per second
UsFactor == 1000000

\* 1e9: what dump_summary starts its minima from
Unset == 1000000000

\* the delay filters of the figures
DelayMaxLarge == 10000

DelayMaxDetail == 1000

---------------------------------------------------------------------------
(* Python's string operations, on TLA+ strings.                            *)

MinOf(S) == CHOOSE m \in S : \A n \in S : m <= n

MaxOf(S) == CHOOSE m \in S : \A n \in S : n <= m

\* the characters str.strip() removes (those the inputs can hold)
Whitespace == {" ", "\n", "\t", "\r"}

CharAt(s, i) == SubSeq(s, i, i)

\* s[a:b]
Slice(s, a, b) ==
    LET n  == Len(s)
        lo == IF a < 0 THEN MaxOf({a + n, 0}) ELSE MinOf({a, n})
        hi == IF b < 0 THEN MaxOf({b + n, 0}) ELSE MinOf({b, n})
    IN  IF lo < hi THEN SubSeq(s, lo + 1, hi) ELSE SubSeq(s, 1, 0)

\* s.split(sep): leftmost, non-overlapping occurrences of sep
RECURSIVE Split(_, _)
Split(s, sep) ==
    LET hits == {i \in 1..(Len(s) - Len(sep) + 1) :
                    SubSeq(s, i, i + Len(sep) - 1) = sep}
    IN  IF hits = {} THEN <<s>>
        ELSE LET i == MinOf(hits)
             IN  <<SubSeq(s, 1, i - 1)>>
                 \o Split(SubSeq(s, i + Len(sep), Len(s)), sep)

\* s.rstrip(chars)
RECURSIVE RStrip(_, _)
RStrip(s, chars) ==
    IF Len(s) > 0 /\ CharAt(s, Len(s)) \in chars
    THEN RStrip(SubSeq(s, 1, Len(s) - 1), chars)
    ELSE s

RECURSIVE LStrip(_, _)
LStrip(s, chars) ==
    IF Len(s) > 0 /\ CharAt(s, 1) \in chars
    THEN LStrip(SubSeq(s, 2, Len(s)), chars)
    ELSE s

\* s.strip()
Strip(s) == LStrip(RStrip(s, Whitespace), Whitespace)

\* s.splitlines(): a final line break ends the last line, it starts no new one
SplitLines(s) ==
    IF Len(s) = 0 THEN <<>>
    ELSE LET parts == Split(s, "\n")
         IN  IF parts[Len(parts)] = ""
             THEN SubSeq(parts, 1, Len(parts) - 1)
             ELSE parts

Digits == "0123456789"

IsDigit(c) == \E d \in 1..10 : CharAt(Digits, d) = c

DigitVal(c) == (CHOOSE d \in 1..10 : CharAt(Digits, d) = c) - 1

RECURSIVE DigitsVal(_)
DigitsVal(s) ==
    IF Len(s) = 0 THEN 0
    ELSE 10 * DigitsVal(SubSeq(s, 1, Len(s) - 1)) + DigitVal(CharAt(s, Len(s)))

\* int(s): surrounding whitespace and a sign are accepted; anything that is
\* not a decimal numeral raises ValueError.  (Underscores between digits,
\* which int() also accepts, are not in the inputs.)
ParseInt(s) ==
    LET t    == Strip(s)
        sgn  == Len(t) > 0 /\ CharAt(t, 1) \in {"+", "-"}
        body == IF sgn THEN SubSeq(t, 2, Len(t)) ELSE t
    IN  IF Len(body) > 0 /\ \A i \in 1..Len(body) : IsDigit(CharAt(body, i))
        THEN [exc |-> "none",
              val |-> IF sgn /\ CharAt(t, 1) = "-"
                      THEN 0 - DigitsVal(body) ELSE DigitsVal(body)]
        ELSE [exc |-> "ValueError", val |-> 0]

---------------------------------------------------------------------------
(* parse_table                                                             *)

RECURSIVE GCD(_, _)
GCD(a, b) == IF b = 0 THEN a ELSE GCD(b, a % b)

Abs(n) == IF n < 0 THEN 0 - n ELSE n

\* the quotient n * factor / d (d # 0) as a reduced fraction with a positive
\* denominator; factor and d are reduced first, which keeps the product small
Quotient(n, factor, d) ==
    LET g1 == GCD(factor, Abs(d))
        f  == factor \div g1
        c  == Abs(d) \div g1
        m  == (IF d < 0 THEN 0 - n ELSE n) * f
        g2 == GCD(Abs(m), c)
    IN  <<m \div g2, c \div g2>>

\* conv with the unit ignored: every table converted as nanoseconds
conv_ns_only(delay, cycles, dtype, clock) ==
    Quotient(cycles, NsFactor, clock)

\* conv(delay, cycles) of parse_table, with the dtype and clock it closes over
conv(delay, cycles, dtype, clock) ==
    Quotient(cycles, IF dtype = "ns" THEN NsFactor ELSE UsFactor, clock)

\* [int(v.strip()) for v in line.rstrip(">").split(" | ")]
RowValues(line) ==
    LET cols == Split(RStrip(line, {">"}), " | ")
    IN  [i \in 1..Len(cols) |-> ParseInt(Strip(cols[i]))]

\* the exception the loop body raises on a line with these values, "none" if
\* none
RowExc(values, clock) ==
    IF \E i \in 1..Len(values) : values[i].exc # "none" THEN "ValueError"
    ELSE IF Len(values) < 3 THEN "IndexError"
    ELSE IF clock = 0 THEN "ZeroDivisionError"
    ELSE "none"

ParseResult(exc, dtype, clock, rows) ==
    [exc |-> exc, dtype |-> dtype, clock |-> clock, rows |-> rows]

NoData == ParseResult("none", "", 0, <<>>)

\* parse_table(text): (dtype, clock, data), or the exception raised
parse_table(text) ==
    LET lines == SplitLines(Strip(text))
    IN  IF Len(lines) = 0 THEN ParseResult("IndexError", "", 0, <<>>)
        ELSE
        LET parts == Split(lines[1], " = ")
        IN  IF Len(parts) < 2 THEN ParseResult("IndexError", "", 0, <<>>)
            ELSE
            LET clockR == ParseInt(parts[2])
                clock  == clockR.val
                dtype  == Slice(lines[1], 12, 14)
                body   == SubSeq(lines, 4, Len(lines))
                parsed == [i \in 1..Len(body) |-> RowValues(body[i])]
                bad    == {i \in 1..Len(body) : RowExc(parsed[i], clock) # "none"}
            IN  IF clockR.exc # "none"
                THEN ParseResult("ValueError", "", 0, <<>>)
                ELSE IF bad # {}
                THEN ParseResult(RowExc(parsed[MinOf(bad)], clock), "", 0, <<>>)
                ELSE ParseResult("none", dtype, clock,
                        [i \in 1..Len(body) |->
                            <<parsed[i][1].val,
                              conv(parsed[i][1].val, parsed[i][3].val, dtype, clock),
                              parsed[i][3].val>>])

---------------------------------------------------------------------------
(* DATA = defaultdict(lambda: defaultdict(dict)).  A dictionary is the     *)
(* sequence of its <<key, value>> pairs in insertion order, which is the   *)
(* order .items() yields them in.                                          *)

Keys(d) == {d[i][1] : i \in 1..Len(d)}

Get(d, k) == d[CHOOSE i \in 1..Len(d) : d[i][1] = k][2]

\* d[k] = v: a new key goes last, an old key keeps its place
Put(d, k, v) ==
    IF k \in Keys(d)
    THEN [i \in 1..Len(d) |-> IF d[i][1] = k THEN <<k, v>> ELSE d[i]]
    ELSE Append(d, <<k, v>>)

\* d[k] of a defaultdict whose default is the empty dictionary
GetDefault(d, k) == IF k \in Keys(d) THEN Get(d, k) ELSE <<>>

\* the assignment made an extension of the rows already stored under the key
SetItem_merge(D, dev, dtype, clock, rows) ==
    LET dtypes == GetDefault(D, dev)
        clocks == GetDefault(dtypes, dtype)
    IN  Put(D, dev, Put(dtypes, dtype,
                        Put(clocks, clock, GetDefault(clocks, clock) \o rows)))

\* DATA[device][dtype][clock] = rows
SetItem(D, dev, dtype, clock, rows) ==
    LET dtypes == GetDefault(D, dev)
        clocks == GetDefault(dtypes, dtype)
    IN  Put(D, dev, Put(dtypes, dtype, Put(clocks, clock, rows)))

---------------------------------------------------------------------------
(* The directory.  A file is its name and the tables written in it; a      *)
(* table is its unit, clock and rows <<delay, other, cycles, marked>> and  *)
(* the way it is written: "ok", or one of the malformed shapes.  The text  *)
(* of a file is what read_text() returns for it.                           *)

FileNames == {"data_avr.txt", "data_avr.csv", "data_f7.txt"}

Units == {"ns", "us"}

Clocks == {16000000, 48000000}

RowsA == << <<1000, 7, 8, FALSE>>, <<10000, 9, 3, FALSE>>, <<20000, 2, 8, TRUE>> >>

RowsB == << <<2000, 1, 2, FALSE>> >>

MalformedShapes ==
    {"empty", "no_equals", "bad_clock", "bad_field", "few_columns"}

Table(unit, clock, rows, shape) ==
    [unit |-> unit, clock |-> clock, rows |-> rows, shape |-> shape]

\* "ns" tables at both clocks with either rows, "us" tables at both clocks,
\* and a table that is a header without rows
WellFormedTables ==
    {Table("ns", c, r, "ok") : c \in Clocks, r \in {RowsA, RowsB}}
    \cup {Table("us", c, RowsA, "ok") : c \in Clocks}
    \cup {Table("ns", 16000000, <<>>, "ok")}

MalformedTables ==
    {Table("ns", 16000000, RowsA, sh) : sh \in MalformedShapes}

\* the tables of the directory both copies are run on: one or two for each
\* figure, and the header without rows
BothTables ==
    {Table("ns", 16000000, RowsA, "ok"), Table("ns", 48000000, RowsA, "ok"),
     Table("ns", 48000000, RowsB, "ok"), Table("us", 16000000, RowsA, "ok"),
     Table("ns", 16000000, <<>>, "ok")}

\* the tables of a directory that may hold malformed ones
MixedTables ==
    {Table("ns", 16000000, RowsA, "ok"), Table("us", 48000000, RowsA, "ok")}
    \cup MalformedTables

RECURSIVE IntToStr(_)
IntToStr(n) ==
    IF n < 10 THEN CharAt(Digits, n + 1)
    ELSE IntToStr(n \div 10) \o CharAt(Digits, (n % 10) + 1)

RECURSIVE Join(_, _)
Join(strs, sep) ==
    IF Len(strs) = 0 THEN ""
    ELSE IF Len(strs) = 1 THEN strs[1]
    ELSE strs[1] \o sep \o Join(Tail(strs), sep)

HeaderLine(t) ==
    "Measured in " \o t.unit \o
    (CASE t.shape = "no_equals" -> " at clock " \o IntToStr(t.clock)
       [] t.shape = "bad_clock" -> " at clock = " \o IntToStr(t.clock) \o "Hz"
       [] OTHER                 -> " at clock = " \o IntToStr(t.clock))

RowLine(r, shape) ==
    " " \o IntToStr(r[1]) \o " | " \o
    (CASE shape = "bad_field"   -> "n/a | " \o IntToStr(r[3])
       [] shape = "few_columns" -> IntToStr(r[3])
       [] OTHER                 -> IntToStr(r[2]) \o " | " \o IntToStr(r[3]))
    \o (IF r[4] THEN ">" ELSE "")

\* only the first row of a malformed table is malformed
TableText(t) ==
    IF t.shape = "empty" THEN ""
    ELSE Join(<<HeaderLine(t), "delay | other | cycles", "------">>
              \o [i \in 1..Len(t.rows) |->
                    RowLine(t.rows[i], IF i = 1 THEN t.shape ELSE "ok")],
              "\n")

ReadText(f) ==
    Join([i \in 1..Len(f.tables) |-> TableText(f.tables[i])], "\n\n") \o "\n"

RECURSIVE SumSeq(_)
SumSeq(c) == IF Len(c) = 0 THEN 0 ELSE Head(c) + SumSeq(Tail(c))

\* how many tables each file holds
FileSizes ==
    {c \in UNION {[1..n -> 1..MaxTables] : n \in 0..MaxFiles} :
        SumSeq(c) <= MaxTables}

NameSeqs(n) ==
    {ns \in [1..n -> FileNames] :
        \A i, j \in 1..n : i # j => ns[i] # ns[j]}

Directory(c, ns, ts) ==
    [i \in 1..Len(c) |->
        [name   |-> ns[i],
         tables |-> SubSeq(ts, SumSeq(SubSeq(c, 1, i - 1)) + 1,
                               SumSeq(SubSeq(c, 1, i)))]]

Directories(TableSet) ==
    UNION {UNION {{Directory(c, ns, ts) : ts \in [1..SumSeq(c) -> TableSet]} :
                    ns \in NameSeqs(Len(c))} :
             c \in FileSizes}

---------------------------------------------------------------------------
(* The script.                                                             *)

NoRun == [ran |-> FALSE, DATA |-> <<>>, stdout |-> <<>>, saved |-> <<>>,
          err |-> "none"]

Start ==
    /\ script = 1
    /\ pc = "read_tables"
    /\ fidx = 0
    /\ device = ""
    /\ tables = <<>>
    /\ tidx = 0
    /\ data = NoData
    /\ DATA = <<>>
    /\ stdout = <<>>
    /\ figs = <<>>
    /\ cur = 0
    /\ saved = <<>>
    /\ err = "none"
    /\ prev = NoRun

Init == files \in Directories(WellFormedTables) /\ Start

InitMalformed == files \in Directories(MixedTables) /\ Start

InitBoth == files \in Directories(BothTables) /\ Start

\* read_tables: the outer loop takes the next file
NextFile ==
    /\ pc = "read_tables"
    /\ tidx = Len(tables)
    /\ fidx < Len(files)
    /\ LET file == files[fidx + 1]
           dev  == Slice(file.name, 5, -4)
       IN  /\ device' = dev
           /\ stdout' = Append(stdout, [kind |-> "device", device |-> dev])
           /\ tables' = Split(ReadText(file), "\n\n")
    /\ fidx' = fidx + 1
    /\ tidx' = 0
    /\ UNCHANGED <<files, script, pc, data, DATA, figs, cur, saved, err, prev>>

\* the inner loop with a table that does not parse skipped
ReadTable_skip ==
    /\ pc = "read_tables"
    /\ tidx < Len(tables)
    /\ LET r == parse_table(tables[tidx + 1])
       IN  IF r.exc # "none"
           THEN UNCHANGED <<data, DATA>>
           ELSE /\ data' = r
                /\ DATA' = SetItem(DATA, device, r.dtype, r.clock, r.rows)
    /\ tidx' = tidx + 1
    /\ UNCHANGED <<files, script, pc, fidx, device, tables, stdout, figs, cur,
                   saved, err, prev>>

\* read_tables: the inner loop takes the next table of the file
ReadTable ==
    /\ pc = "read_tables"
    /\ tidx < Len(tables)
    /\ LET r == parse_table(tables[tidx + 1])
       IN  IF r.exc # "none"
           THEN /\ pc' = "error"
                /\ err' = r.exc
                /\ UNCHANGED <<data, DATA, tidx>>
           ELSE /\ data' = r
                /\ DATA' = SetItem(DATA, device, r.dtype, r.clock, r.rows)
                /\ tidx' = tidx + 1
                /\ UNCHANGED <<pc, err>>
    /\ UNCHANGED <<files, script, fidx, device, tables, stdout, figs, cur,
                   saved, prev>>

\* read_tables returns
EndRead ==
    /\ pc = "read_tables"
    /\ tidx = Len(tables)
    /\ fidx = Len(files)
    /\ pc' = "dump_summary"
    /\ UNCHANGED <<files, script, fidx, device, tables, tidx, data, DATA,
                   stdout, figs, cur, saved, err, prev>>

---------------------------------------------------------------------------
(* dump_summary                                                            *)

RECURSIVE FlatCat(_)
FlatCat(seqs) == IF Len(seqs) = 0 THEN <<>> ELSE Head(seqs) \o FlatCat(Tail(seqs))

\* min(a, b) and max(a, b) of Python: a, unless b is strictly better
Min2(a, b) == IF b < a THEN b ELSE a

Max2(a, b) == IF b > a THEN b ELSE a

\* the <<clock, delays>> of a device in the order the two inner loops visit them
DeviceTables(dtypes) == FlatCat([j \in 1..Len(dtypes) |-> dtypes[j][2]])

\* clock < 16e6
IsBoot_strict(clock) == clock < BootClockMax

\* clock <= 16e6
IsBoot(clock) == clock <= BootClockMax

\* the two inner loops, from the table at the head of tabs on; min() of a
\* table without rows raises ValueError
RECURSIVE SummaryLoop(_, _)
SummaryLoop(tabs, acc) ==
    IF Len(tabs) = 0 THEN acc
    ELSE LET clock  == tabs[1][1]
             delays == tabs[1][2]
         IN  IF Len(delays) = 0 THEN [acc EXCEPT !.exc = "ValueError"]
             ELSE
             LET min_cycles == MinOf({delays[i][3] : i \in 1..Len(delays)})
             IN  SummaryLoop(Tail(tabs),
                    [exc |-> "none",
                     minclock |-> Min2(acc.minclock, clock),
                     maxclock |-> Max2(acc.maxclock, clock),
                     boot |-> IF IsBoot(clock)
                              THEN Min2(acc.boot, min_cycles) ELSE acc.boot,
                     high |-> IF IsBoot(clock)
                              THEN acc.high ELSE Min2(acc.high, min_cycles)])

\* int(cycles * 1e9 / clock), clock # 0, written whole * times + rest
\* (the value itself can exceed what TLC's integers hold)
TimeNs(cycles, clock) ==
    LET q == Quotient(1, NsFactor, clock)
    IN  [whole |-> cycles \div q[2],
         times |-> q[1],
         rest  |-> ((cycles % q[2]) * q[1]) \div q[2]]

\* one pass of the outer loop: the line printed for the device, or the exception
DeviceSummary(dev, dtypes) ==
    LET acc == SummaryLoop(DeviceTables(dtypes),
                   [exc |-> "none", minclock |-> Unset, maxclock |-> 0,
                    boot |-> Unset, high |-> Unset])
        exc == IF acc.exc # "none" THEN acc.exc
               ELSE IF acc.minclock = 0 \/ acc.maxclock = 0
               THEN "ZeroDivisionError" ELSE "none"
    IN  [kind |-> "summary", exc |-> exc, device |-> dev,
         min_cycles_boot |-> acc.boot, min_cycles_high |-> acc.high,
         boot_ns |-> IF exc = "none" THEN TimeNs(acc.boot, acc.minclock)
                     ELSE TimeNs(0, 1),
         boot_clock |-> acc.minclock,
         high_ns |-> IF exc = "none" THEN TimeNs(acc.high, acc.maxclock)
                     ELSE TimeNs(0, 1),
         high_clock |-> acc.maxclock]

\* the passes of the outer loop over DATA
Summaries(D) == [i \in 1..Len(D) |-> DeviceSummary(D[i][1], D[i][2])]

\* the devices whose pass raises
Raising(D) == {i \in 1..Len(D) : Summaries(D)[i].exc # "none"}

\* the lines dump_summary prints: up to the first device that raises
SummaryLines(D) ==
    SubSeq(Summaries(D), 1,
           IF Raising(D) = {} THEN Len(D) ELSE MinOf(Raising(D)) - 1)

\* dump_summary with dtypes["ns"] read inside the loop: on a defaultdict the
\* read inserts the key
DumpSummary_touch ==
    /\ pc = "dump_summary"
    /\ stdout' = stdout \o SummaryLines(DATA)
    /\ IF Raising(DATA) = {}
       THEN pc' = "ns_boot" /\ err' = err
       ELSE pc' = "error" /\ err' = Summaries(DATA)[MinOf(Raising(DATA))].exc
    /\ DATA' = [i \in 1..Len(DATA) |->
                  <<DATA[i][1],
                    Put(DATA[i][2], "ns", GetDefault(DATA[i][2], "ns"))>>]
    /\ UNCHANGED <<files, script, fidx, device, tables, tidx, data,
                   figs, cur, saved, prev>>

\* dump_summary()
DumpSummary ==
    /\ pc = "dump_summary"
    /\ stdout' = stdout \o SummaryLines(DATA)
    /\ IF Raising(DATA) = {}
       THEN pc' = "ns_boot" /\ err' = err
       ELSE pc' = "error" /\ err' = Summaries(DATA)[MinOf(Raising(DATA))].exc
    /\ UNCHANGED <<files, script, fidx, device, tables, tidx, data, DATA,
                   figs, cur, saved, prev>>

---------------------------------------------------------------------------
(* plot_table and matplotlib's current figure                              *)

EmptyFigure == [series |-> <<>>, notes |-> <<>>]

\* plt.figure(): a new figure, which becomes the current one
plt_figure(m) ==
    [figs |-> Append(m.figs, EmptyFigure), cur |-> Len(m.figs) + 1]

\* plt.clf() left out
plt_clf_keep(m) == m

\* plt.clf(): the current figure loses what was drawn in it
plt_clf(m) ==
    IF m.cur = 0 THEN plt_figure(m)
    ELSE [m EXCEPT !.figs[m.cur] = EmptyFigure]

\* plt.plot(x, y), once per series, into the current figure
plt_plot(m, series) == [m EXCEPT !.figs[m.cur].series = @ \o series]

\* plt.axline, plt.text and plt.annotate: decorations of the current figure
plt_annotate(m, notes) == [m EXCEPT !.figs[m.cur].notes = @ \o notes]

\* plt.savefig(name): the file holds the current figure as it is now
plt_savefig(m, name) ==
    [name |-> name, series |-> m.figs[m.cur].series, notes |-> m.figs[m.cur].notes]

\* plt.plot([v[0] for v in filtered], [v[1] for v in filtered]); key is the
\* table the series comes from, which is what line 41 prints as it is drawn
MakeSeries(key, filtered) ==
    [key |-> key,
     x   |-> [r \in 1..Len(filtered) |-> filtered[r][1]],
     y   |-> [r \in 1..Len(filtered) |-> filtered[r][2]]]

\* plot_table with a table skipped when none of its rows passes delay_filter
plot_table_skip_empty(D, device_filter, dtype_filter, clock_filter, delay_filter) ==
    FlatCat([i \in 1..Len(D) |->
        IF ~device_filter[D[i][1]] THEN <<>>
        ELSE FlatCat([j \in 1..Len(D[i][2]) |->
            IF ~dtype_filter[D[i][2][j][1]] THEN <<>>
            ELSE FlatCat([k \in 1..Len(D[i][2][j][2]) |->
                LET clock    == D[i][2][j][2][k][1]
                    delays   == D[i][2][j][2][k][2]
                    filtered == SelectSeq(delays, LAMBDA d : delay_filter[d])
                IN  IF ~clock_filter[clock] \/ Len(filtered) = 0 THEN <<>>
                    ELSE <<MakeSeries(<<D[i][1], D[i][2][j][1], clock>>,
                                      filtered)>>])])])

\* the series plot_table draws, in drawing order.  A filter (a lambda of the
\* caller) is a function on the values DATA holds.
plot_table(D, device_filter, dtype_filter, clock_filter, delay_filter) ==
    FlatCat([i \in 1..Len(D) |->
        IF ~device_filter[D[i][1]] THEN <<>>
        ELSE FlatCat([j \in 1..Len(D[i][2]) |->
            IF ~dtype_filter[D[i][2][j][1]] THEN <<>>
            ELSE FlatCat([k \in 1..Len(D[i][2][j][2]) |->
                LET clock    == D[i][2][j][2][k][1]
                    delays   == D[i][2][j][2][k][2]
                    filtered == SelectSeq(delays, LAMBDA d : delay_filter[d])
                IN  IF ~clock_filter[clock] THEN <<>>
                    ELSE <<MakeSeries(<<D[i][1], D[i][2][j][1], clock>>,
                                      filtered)>>])])])

SeriesLine(s) ==
    [kind |-> "series", device |-> s.key[1], dtype |-> s.key[2], clock |-> s.key[3]]

\* one figure block of the main part: [plt.clf()], [plt.figure()], the
\* decorations, plot_table with its filters, plt.savefig
Figure(at, clear, create, series, notes, name, next) ==
    /\ pc = at
    /\ LET m0 == [figs |-> figs, cur |-> cur]
           m1 == IF clear THEN plt_clf(m0) ELSE m0
           m2 == IF create THEN plt_figure(m1) ELSE m1
           m3 == plt_annotate(plt_plot(m2, series), notes)
       IN  /\ figs' = m3.figs
           /\ cur' = m3.cur
           /\ saved' = Append(saved, plt_savefig(m3, name))
    /\ stdout' = stdout \o [i \in 1..Len(series) |-> SeriesLine(series[i])]
    /\ pc' = next
    /\ UNCHANGED <<files, script, fidx, device, tables, tidx, data, DATA, err,
                   prev>>

\* the values DATA holds: what the lambdas of the main part are applied to
DevicesOf(D) == Keys(D)

DtypesOf(D) == UNION {Keys(D[i][2]) : i \in 1..Len(D)}

ClocksOf(D) ==
    UNION {UNION {Keys(D[i][2][j][2]) : j \in 1..Len(D[i][2])} : i \in 1..Len(D)}

DelaysOf(D) ==
    UNION {UNION {UNION {{D[i][2][j][2][k][2][r] :
                            r \in 1..Len(D[i][2][j][2][k][2])} :
                        k \in 1..Len(D[i][2][j][2])} :
                    j \in 1..Len(D[i][2])} :
             i \in 1..Len(D)}

\* lambda d: True
AnyDevice == [d \in DevicesOf(DATA) |-> TRUE]

\* lambda t: t == "ns"
IsNs == [t \in DtypesOf(DATA) |-> t = "ns"]

\* lambda t: t == "us"
IsUs == [t \in DtypesOf(DATA) |-> t = "us"]

\* lambda c: c <= 16e6
BootClock == [c \in ClocksOf(DATA) |-> c <= BootClockMax]

\* lambda c: c > 16e6
HighClock == [c \in ClocksOf(DATA) |-> c > BootClockMax]

\* lambda d: d[0] <= 10000
UpToLarge == [d \in DelaysOf(DATA) |-> d[1] <= DelayMaxLarge]

\* lambda d: d[0] <= 1000
UpToDetail == [d \in DelaysOf(DATA) |-> d[1] <= DelayMaxDetail]

---------------------------------------------------------------------------
(* The main part of copy A                                                 *)

A_NsBoot ==
    /\ script = 1
    /\ Figure("ns_boot", FALSE, TRUE,
              plot_table(DATA, AnyDevice, IsNs, BootClock, UpToLarge),
              <<"axline", "STM32L0/L1 @ ~2MHz", "STM32L0", "STM32L1",
                "STM32F7 @ 16MHz", "AVR @ 16MHz", "STM32F1 @ 8MHz",
                "STM32L4 @ 16MHz", "Ideal">>,
              "ns_boot.svg", "ns_high_detail")

A_NsHighDetail ==
    /\ script = 1
    /\ Figure("ns_high_detail", TRUE, FALSE,
              plot_table(DATA, AnyDevice, IsNs, HighClock, UpToDetail),
              <<"axline", "Ideal", "STM32L0/L1 @ 32MHz", "STM32F0 @ 48MHz",
                "STM32L4 @ 48MHz", "STM32L0", "STM32G0 @ 64MHz", "STM32L1",
                "STM32G4 @ 170MHz", "STM32F7 @ 216MHz", "STM32F4 @ 180MHz">>,
              "ns_high_detail.svg", "ns_high")

A_NsHigh ==
    /\ script = 1
    /\ Figure("ns_high", TRUE, TRUE,
              plot_table(DATA, AnyDevice, IsNs, HighClock, UpToLarge),
              <<"STM32F7 @ 216MHz">>,
              "ns_high.svg", "us_boot")

A_UsBoot ==
    /\ script = 1
    /\ Figure("us_boot", TRUE, FALSE,
              plot_table(DATA, AnyDevice, IsUs, BootClock, UpToDetail),
              <<"STM32L0 @ ~2MHz", "STM32L1 @ ~2MHz", "Ideal">>,
              "us_boot.svg", "done")

\* a run of the script
Next ==
    \/ NextFile
    \/ ReadTable
    \/ EndRead
    \/ DumpSummary
    \/ A_NsBoot
    \/ A_NsHighDetail
    \/ A_NsHigh
    \/ A_UsBoot

Spec == Init /\ [][Next]_vars

SpecMalformed == InitMalformed /\ [][Next]_vars

---------------------------------------------------------------------------
(* The main part of copy B                                                 *)

B_NsBoot ==
    /\ script = 2
    /\ Figure("ns_boot", FALSE, TRUE,
              plot_table(DATA, AnyDevice, IsNs, BootClock, UpToLarge),
              <<"axline", "STM32L0/L1 @ ~2MHz", "STM32F7 @ 16MHz",
                "AVR @ 16MHz", "STM32F1 @ 8MHz", "STM32L4 @ 16MHz", "Ideal">>,
              "ns_boot.svg", "ns_high_detail")

B_NsHighDetail ==
    /\ script = 2
    /\ Figure("ns_high_detail", TRUE, FALSE,
              plot_table(DATA, AnyDevice, IsNs, HighClock, UpToDetail),
              <<"axline", "Ideal", "STM32L0/L1 @ 32MHz", "STM32F0 @ 48MHz",
                "STM32L4 @ 48MHz", "STM32F7 @ 216MHz", "STM32F4 @ 180MHz">>,
              "ns_high_detail.svg", "ns_high")

\* the third figure of copy B drawn with the delay filter of the second
B_NsHigh_detail ==
    /\ script = 2
    /\ Figure("ns_high", TRUE, TRUE,
              plot_table(DATA, AnyDevice, IsNs, HighClock, UpToDetail),
              <<"STM32F7 @ 216MHz">>,
              "ns_high.svg", "us_boot")

B_NsHigh ==
    /\ script = 2
    /\ Figure("ns_high", TRUE, TRUE,
              plot_table(DATA, AnyDevice, IsNs, HighClock, UpToLarge),
              <<"STM32F7 @ 216MHz">>,
              "ns_high.svg", "us_boot")

B_UsBoot ==
    /\ script = 2
    /\ Figure("us_boot", TRUE, FALSE,
              plot_table(DATA, AnyDevice, IsUs, BootClock, UpToDetail),
              <<>>,
              "us_boot.svg", "done")

---------------------------------------------------------------------------
(* Copy A has ended, normally or by an exception; copy B starts in a       *)
(* process of its own, on the same directory.                              *)

StartB ==
    /\ script = 1
    /\ pc \in {"done", "error"}
    /\ prev' = [ran |-> TRUE, DATA |-> DATA, stdout |-> stdout,
                saved |-> saved, err |-> err]
    /\ script' = 2
    /\ pc' = "read_tables"
    /\ fidx' = 0
    /\ device' = ""
    /\ tables' = <<>>
    /\ tidx' = 0
    /\ data' = NoData
    /\ DATA' = <<>>
    /\ stdout' = <<>>
    /\ figs' = <<>>
    /\ cur' = 0
    /\ saved' = <<>>
    /\ err' = "none"
    /\ UNCHANGED files

\* a run of copy A, then a run of copy B
NextBoth ==
    \/ Next
    \/ StartB
    \/ B_NsBoot
    \/ B_NsHighDetail
    \/ B_NsHigh
    \/ B_UsBoot

SpecBoth == InitBoth /\ [][NextBoth]_vars

---------------------------------------------------------------------------
(* What the properties below are stated in: the tables written in the      *)
(* directory, and DATA as a set of stored tables.                          *)

\* the tables DATA holds, each with its three keys
Stored(D) ==
    UNION {UNION {{[device |-> D[i][1], dtype |-> D[i][2][j][1],
                    clock |-> D[i][2][j][2][k][1], rows |-> D[i][2][j][2][k][2]] :
                        k \in 1..Len(D[i][2][j][2])} :
                    j \in 1..Len(D[i][2])} :
             i \in 1..Len(D)}

KeyOf(e) == <<e.device, e.dtype, e.clock>>

\* no dictionary of DATA holds a key twice
KeysDistinct(D) ==
    /\ \A i, j \in 1..Len(D) : i # j => D[i][1] # D[j][1]
    /\ \A i \in 1..Len(D) :
        /\ \A j, k \in 1..Len(D[i][2]) : j # k => D[i][2][j][1] # D[i][2][k][1]
        /\ \A j \in 1..Len(D[i][2]) :
            \A k, l \in 1..Len(D[i][2][j][2]) :
                k # l => D[i][2][j][2][k][1] # D[i][2][j][2][l][1]

\* the tables of the directory in reading order, each with the name of its
\* file less the first 5 and the last 4 characters
Written ==
    FlatCat([f \in 1..Len(files) |->
        [t \in 1..Len(files[f].tables) |->
            [device |-> SubSeq(files[f].name, 6, Len(files[f].name) - 4),
             table  |-> files[f].tables[t]]]])

\* q is the fraction cycles * factor / clock
IsQuotient(q, cycles, factor, clock) ==
    LET g == GCD(factor, clock)
    IN  q[2] > 0 /\ q[1] * (clock \div g) = cycles * (factor \div g) * q[2]

FactorOf(unit) == IF unit = "ns" THEN 1000 * 1000 * 1000 ELSE 1000 * 1000

\* rows is what table t, as written, parses to
RowsOf(rows, t) ==
    /\ Len(rows) = Len(t.rows)
    /\ \A i \in 1..Len(rows) :
        /\ rows[i][1] = t.rows[i][1]
        /\ rows[i][3] = t.rows[i][3]
        /\ IsQuotient(rows[i][2], t.rows[i][3], FactorOf(t.unit), t.clock)

AfterRead == pc \in {"dump_summary", "ns_boot", "ns_high_detail", "ns_high",
                     "us_boot", "done"}

PrintedSummaries == SelectSeq(stdout, LAMBDA l : l.kind = "summary")

\* the malformed tables of the directory, by file and place in the file
BadPlaces ==
    {p \in (1..Len(files)) \X (1..MaxTables + 1) :
        /\ p[2] <= Len(files[p[1]].tables)
        /\ files[p[1]].tables[p[2]].shape # "ok"}

FirstBad ==
    CHOOSE p \in BadPlaces :
        \A q \in BadPlaces : p[1] < q[1] \/ (p[1] = q[1] /\ p[2] <= q[2])

\* the figures in the order the main part saves them, with their filters
Figures ==
    << [name |-> "ns_boot.svg",        dtype |-> "ns", boot |-> TRUE,  upto |-> 10000],
       [name |-> "ns_high_detail.svg", dtype |-> "ns", boot |-> FALSE, upto |-> 1000],
       [name |-> "ns_high.svg",        dtype |-> "ns", boot |-> FALSE, upto |-> 10000],
       [name |-> "us_boot.svg",        dtype |-> "us", boot |-> TRUE,  upto |-> 1000] >>

\* the stored tables that pass the filters of figure n
Matching(n) ==
    {e \in Stored(DATA) :
        /\ e.dtype = Figures[n].dtype
        /\ (e.clock <= 16000000) = Figures[n].boot}

---------------------------------------------------------------------------
(* C1: parse_table returns the unit at characters 12..13 of the first      *)
(* line, the clock after " = ", and one tuple per line after the third, in *)
(* order: (column 0, measured, column 2), measured being column 2 times    *)
(* 10^9 (unit "ns") or 10^6 (any other unit) over the clock, whatever      *)
(* column 1 and the delay are.  `data` holds the result for the table      *)
(* files[fidx].tables[tidx] whenever tidx > 0.                             *)
C1_ParseTable ==
    tidx > 0 =>
        LET t == files[fidx].tables[tidx]
        IN  /\ data.exc = "none"
            /\ data.dtype = t.unit
            /\ data.clock = t.clock
            /\ RowsOf(data.rows, t)
            /\ \A i, j \in 1..Len(data.rows) :
                  data.rows[i][3] = data.rows[j][3]
                      => data.rows[i][2] = data.rows[j][2]

\* a "us" table of three rows (one marked ">") at 48 MHz has been parsed:
\* 3 cycles are 3 * 10^6 / 48 000 000 = 1/16 us
C1_Witness ==
    /\ tidx > 0
    /\ files[fidx].tables[tidx] =
          [unit |-> "us", clock |-> 48000000, rows |-> RowsA, shape |-> "ok"]
    /\ data.rows = << <<1000, <<1, 6>>, 8>>, <<10000, <<1, 16>>, 3>>,
                      <<20000, <<1, 6>>, 8>> >>

---------------------------------------------------------------------------
(* C2: once read_tables has returned, DATA[device][unit][clock] is the row *)
(* list of the last table read with that device, unit and clock, rows of   *)
(* two tables are never merged, and DATA holds no other key.               *)
C2_ReadTables ==
    AfterRead =>
        /\ KeysDistinct(DATA)
        /\ \A e \in Stored(DATA) :
              \E n \in 1..Len(Written) :
                  /\ KeyOf(e) = <<Written[n].device, Written[n].table.unit,
                                  Written[n].table.clock>>
                  /\ \A m \in (n + 1)..Len(Written) :
                        KeyOf(e) # <<Written[m].device, Written[m].table.unit,
                                     Written[m].table.clock>>
                  /\ RowsOf(e.rows, Written[n].table)
        /\ \A n \in 1..Len(Written) :
              \E e \in Stored(DATA) :
                  KeyOf(e) = <<Written[n].device, Written[n].table.unit,
                               Written[n].table.clock>>

\* two files of the same device, each with a table of the same unit and
\* clock: DATA holds the one key, with the rows of the second file
C2_Witness ==
    /\ AfterRead
    /\ Len(files) = 2
    /\ files[1].name = "data_avr.txt" /\ files[2].name = "data_avr.csv"
    /\ files[1].tables =
          <<[unit |-> "ns", clock |-> 16000000, rows |-> RowsA, shape |-> "ok"]>>
    /\ files[2].tables =
          <<[unit |-> "ns", clock |-> 16000000, rows |-> RowsB, shape |-> "ok"]>>
    /\ DATA = << <<"avr", << <<"ns", << <<16000000,
                    << <<2000, <<125, 1>>, 2>> >> >> >> >> >> >> >>

---------------------------------------------------------------------------
BootCycles(dev) ==
    UNION {{e.rows[i][3] : i \in 1..Len(e.rows)} :
             e \in {e \in Stored(DATA) : e.device = dev /\ e.clock <= 16000000}}

HighCycles(dev) ==
    UNION {{e.rows[i][3] : i \in 1..Len(e.rows)} :
             e \in {e \in Stored(DATA) : e.device = dev /\ e.clock > 16000000}}

---------------------------------------------------------------------------
SeriesKeys(fig) == {fig.series[i].key : i \in 1..Len(fig.series)}

(* C4: the figures are saved in the order ns_boot.svg, ns_high_detail.svg, *)
(* ns_high.svg, us_boot.svg, all four once the script is done; a saved     *)
(* figure holds one series per stored table passing its filters and none   *)
(* of an earlier figure; so a stored "ns" table is drawn in exactly one of *)
(* ns_boot.svg and ns_high.svg.                                            *)
C4_FiguresInOrder ==
    /\ Len(saved) <= Len(Figures)
    /\ pc = "done" => Len(saved) = Len(Figures)
    /\ \A n \in 1..Len(saved) :
        /\ saved[n].name = Figures[n].name
        /\ SeriesKeys(saved[n]) = {KeyOf(e) : e \in Matching(n)}
        /\ Len(saved[n].series) = Cardinality(Matching(n))
    /\ Len(saved) >= 3 =>
        \A e \in Stored(DATA) :
            e.dtype = "ns" =>
                (KeyOf(e) \in SeriesKeys(saved[1])) # (KeyOf(e) \in SeriesKeys(saved[3]))

\* the script is done and DATA holds a "ns" table at 16 MHz and one at
\* 48 MHz: the first three figures hold one series each
C4_Witness ==
    /\ pc = "done"
    /\ Len(saved[1].series) = 1
    /\ Len(saved[2].series) = 1
    /\ Len(saved[3].series) = 1
    /\ saved[1].series[1].key # saved[3].series[1].key
    /\ saved[4].series = <<>>

---------------------------------------------------------------------------
C5_Inside ==
    BadPlaces # {} =>
        /\ pc \in {"read_tables", "error"}
        /\ PrintedSummaries = <<>>
        /\ saved = <<>>
        /\ fidx < FirstBad[1] \/ (fidx = FirstBad[1] /\ tidx < FirstBad[2])
        /\ pc = "error" =>
            /\ fidx = FirstBad[1]
            /\ tidx = FirstBad[2] - 1
            /\ err \in {"IndexError", "ValueError"}

C5_Raises ==
    (/\ BadPlaces # {}
     /\ pc = "read_tables"
     /\ fidx = FirstBad[1]
     /\ tidx = FirstBad[2] - 1) => pc' = "error"

(* C5: with a malformed table in the directory the script ends by an       *)
(* exception in read_tables, at the first malformed table: no table after  *)
(* it is read, no summary line is printed and no figure is saved.          *)
C5_MalformedEnds == [](C5_Inside) /\ [][C5_Raises]_vars

\* the second file holds a malformed table after a well-formed one, the
\* first file was read whole: the script has ended at that table
C5_Witness ==
    /\ pc = "error"
    /\ fidx = 2
    /\ tidx = 0
    /\ DATA # <<>>
    /\ files[2].tables[1].shape = "few_columns"
    /\ err = "IndexError"

---------------------------------------------------------------------------
Drawn(figures) ==
    [n \in 1..Len(figures) |->
        [name |-> figures[n].name, series |-> figures[n].series]]

(* C6: the two copies, run on the same directory, end the same way with    *)
(* the same DATA, the same summary lines in the same order and the same    *)
(* file names saved in the same order with the same series in each.        *)
C6_CopiesAgree ==
    (script = 2 /\ pc \in {"done", "error"}) =>
        /\ prev.ran
        /\ prev.err = err
        /\ prev.DATA = DATA
        /\ SelectSeq(prev.stdout, LAMBDA l : l.kind = "summary") = PrintedSummaries
        /\ Drawn(prev.saved) = Drawn(saved)

\* copy B is done after copy A: both drew a series with rows in ns_high.svg,
\* with other annotations around it in ns_boot.svg
C6_Witness ==
    /\ script = 2
    /\ pc = "done"
    /\ Len(saved[3].series) = 1
    /\ saved[3].series[1].x # <<>>
    /\ saved[3].series[1].x # saved[2].series[1].x
    /\ prev.saved[1].notes # saved[1].notes

---------------------------------------------------------------------------
Passing(rows, n) == SelectSeq(rows, LAMBDA r : r[1] <= Figures[n].upto)

(* C7: plot_table draws one series for each stored table passing the       *)
(* device, unit and clock filters, also when no row of it passes the delay *)
(* filter, and none for another table; the series holds the rows passing   *)
(* the delay filter, in stored order, x the delay and y the measured delay *)
(* of the same row.                                                        *)
C7_PlotTable ==
    \A n \in 1..Len(saved) :
        /\ Len(saved[n].series) = Cardinality(Matching(n))
        /\ \A e \in Matching(n) :
              \E i \in 1..Len(saved[n].series) :
                  LET sr == saved[n].series[i]
                      rs == Passing(e.rows, n)
                  IN  /\ sr.key = KeyOf(e)
                      /\ Len(sr.x) = Len(rs)
                      /\ Len(sr.y) = Len(rs)
                      /\ \A r \in 1..Len(rs) :
                            sr.x[r] = rs[r][1] /\ sr.y[r] = rs[r][2]

\* a "ns" table at 48 MHz whose only row has delay 2000: a series without
\* points in ns_high_detail.svg, and a series of one point, 2 cycles being
\* 125/3 ns, in ns_high.svg
C7_Witness ==
    /\ Len(saved) >= 3
    /\ Len(saved[2].series) = 1
    /\ saved[2].series[1].x = <<>>
    /\ saved[3].series[1].x = <<2000>>
    /\ saved[3].series[1].y = << <<125, 3>> >>

---------------------------------------------------------------------------
AllWellFormed ==
    \A f \in 1..Len(files) :
        \A t \in 1..Len(files[f].tables) : files[f].tables[t].shape = "ok"

(* C8: on well-formed files dump_summary returns normally having printed   *)
(* one summary line per device in DATA, also when a stored table has a     *)
(* header and no rows.                                                     *)
C8_SummaryReturns ==
    (AllWellFormed /\ pc \notin {"read_tables", "dump_summary"}) =>
        /\ pc # "error"
        /\ Len(PrintedSummaries) = Len(DATA)

---------------------------------------------------------------------------
CyclesOf(dev) ==
    UNION {{e.rows[i][3] : i \in 1..Len(e.rows)} :
             e \in {e \in Stored(DATA) : e.device = dev}}

(* C9: in every summary line the boot cycle count is a cycle count of a    *)
(* stored row of the device and the clock beside the boot time is at most  *)
(* 16 MHz; the high cycle count is a cycle count of a stored row and the   *)
(* clock beside the high time is above 16 MHz.                             *)
C9_SummaryClasses ==
    \A n \in 1..Len(PrintedSummaries) :
        LET l == PrintedSummaries[n]
        IN  /\ l.min_cycles_boot \in CyclesOf(l.device)
            /\ l.boot_clock <= 16000000
            /\ l.min_cycles_high \in CyclesOf(l.device)
            /\ l.high_clock > 16000000

---------------------------------------------------------------------------
C10_Step == (pc # "read_tables" /\ script' = script) => DATA' = DATA

(* C10: within a run of the script, a step outside read_tables (the        *)
(* summary, a figure) leaves DATA as it is.                                *)
C10_OnlyReadWrites == [][C10_Step]_vars

\* the summary and the four figures are through, over a DATA whose device
\* has "us" tables only
C10_Witness ==
    /\ pc = "done"
    /\ Len(saved) = 4
    /\ PrintedSummaries # <<>>
    /\ DATA # <<>>
    /\ \A e \in Stored(DATA) : e.dtype = "us"

===========================================================================
